---- MODULE Spec2Model ----
(***************************************************************************)
(* A model of src/main.rs: the Bevy "Update" systems spawn_stress_shapes,  *)
(* animate_shapes_parallel, log_fps_periodic, update_fps_display and       *)
(* update_entity_display, the resources and components they share, and the *)
(* deferred command queue through which entities are spawned.              *)
(*                                                                         *)
(* Representation.  Times are whole seconds.  An f32 FPS value v is held   *)
(* as the integer v * ONE, and +infinity as INF.  Rotation speeds are held *)
(* in hundredths (0.53 is 53).  A rotation (a quaternion) is held as the   *)
(* sequence of the non-zero axis rotations composed into it, so that two   *)
(* rotations are equal only if they were built by the same rotations in    *)
(* the same order.  The Entity Store (all entities with a Transform and an *)
(* AnimatedShape) is a bag of entity records: the translation, scale, mesh *)
(* and material of an entity are not modelled.  animate_camera touches     *)
(* only the camera entity and is left out.                                 *)
(***************************************************************************)
EXTENDS Bags, FiniteSets, Integers, Sequences, TLC

\* ---------------------------------------------------------------- bounds
MaxFrames == 2        \* frames of a run of Spec
MaxDt == 3            \* largest frame time delta, in seconds
MaxBatches == 2       \* spawn triggers of a run
PatLen == 2           \* period of the frame-time pattern of SpecFps
MaxHistFrames == 152  \* frames of a run of SpecFps
NumEnt == 3           \* entities of the population of SpecPar
MaxSpeedArg == 20     \* batch numbers over which RotationSpeed is compared

\* ------------------------------------------------------ program constants
COUNT == 10000        \* const COUNT: u32 = 10_000
ONE == 60             \* the f32 1.0 of "1.0 / time.delta_secs()"
INF == -1             \* the f32 +infinity that 1.0 / 0.0 yields
HistoryCap == 150     \* samples.len() > 150
WindowSecs == 3       \* current_time - sample_start >= 3.0
DisplaySecs == 1      \* current_time - last_update >= 1.0
ReportSecs == 5       \* current_time - last_5s_log >= 5.0

VARIABLES
    phase,          \* "idle" between frames, "frame" while the Update schedule runs
    frame,          \* number of frames completed
    ran,            \* the systems that have run in the current frame
    now,            \* time.elapsed_secs()
    dt,             \* time.delta_secs()
    just_pressed,   \* input.just_pressed(KeyCode::Space) in the current frame
    stats,          \* resource SimulationStats
    stats_changed,  \* stats.is_changed() as update_entity_display would see it
    fps_counter,    \* component FpsCounter
    fps_text,       \* the Text next to FpsCounter
    entity_text,    \* the Text tagged EntityCountText
    store,          \* bag of the entities with Transform and AnimatedShape
    pending,        \* bag of the spawn commands queued and not yet applied
    console,        \* the last line written by info! or println!
    \* history variables, read by no action's guard
    triggers,       \* number of frames in which the spawn trigger fired
    prev_total,     \* stats.total_entities at the end of the previous frame
    rewrote,        \* update_entity_display rewrote the text in this frame
    shown_stats,    \* stats as it was when update_entity_display last ran
    div_zero,       \* rolling_sum / sample_count was evaluated with sample_count = 0
    all_samples,    \* every FPS sample ever pushed, in arrival order
    last_fps,       \* the FPS sample of the last update_fps_display call
    pattern,        \* SpecFps: the periodic sequence of frame time deltas
    \* SpecPar: one pass of animate_shapes_parallel over individual entities
    par_phase, par_ents, par_init, par_dt, par_owner, par_pc, par_cur

frameVars == <<phase, frame, ran, now, dt, just_pressed>>
statsVars == <<stats, stats_changed, entity_text, prev_total, rewrote, shown_stats,
               triggers>>
fpsVars   == <<fps_counter, fps_text, div_zero, all_samples, last_fps>>
storeVars == <<store, pending>>
parVars   == <<par_phase, par_ents, par_init, par_dt, par_owner, par_pc, par_cur>>
vars == <<frameVars, statsVars, fpsVars, storeVars, console, pattern, parVars>>

Systems == {"spawn", "animate", "log", "fps", "display"}
FpsSystems == {"log", "fps"}

\* ------------------------------------------------------------ f32 values
FAdd(a, b) == IF a = INF \/ b = INF THEN INF ELSE a + b

FDiv(a, n) == IF a = INF THEN INF ELSE a \div n

RECURSIVE FSum(_)
FSum(s) == IF s = <<>> THEN 0 ELSE FAdd(Head(s), FSum(Tail(s)))

\* let fps = 1.0 / time.delta_secs();
InstantFps(d) == IF d = 0 THEN INF ELSE ONE \div d

\* format!("FPS: {:.0}", avg_fps)
FormatFps(avg) ==
    IF avg = INF THEN "FPS: inf"
    ELSE "FPS: " \o ToString((2 * avg + ONE) \div (2 * ONE))

\* format!("Entities: {}", stats.total_entities)
FormatEntities(n) == "Entities: " \o ToString(n)

\* ------------------------------------------------------------------ bags
RECURSIVE TotalCopies(_, _)
TotalCopies(S, B) ==
    IF S = {} THEN 0
    ELSE LET x == CHOOSE y \in S : TRUE IN B[x] + TotalCopies(S \ {x}, B)

\* the bag of f[e] for every element e of bag B
MapBag(f, B) ==
    [r \in {f[x] : x \in DOMAIN B} |-> TotalCopies({x \in DOMAIN B : f[x] = r}, B)]

\* -------------------------------------------------------------- entities
\* An entity: the batch that spawned it (0: the centre shape of setup_scene),
\* its AnimatedShape.rotation_speed, its Transform.rotation, and two history
\* fields: fresh (spawned during the current frame) and upd (rotation updates
\* received in the current frame).
Identity == <<>>

\* Transform::rotate_y / rotate_x / rotate_z: compose one axis rotation
Rotate(rot, axis, angle) == IF angle = 0 THEN rot ELSE Append(rot, <<axis, angle>>)

\* transform.rotate_y(delta_seconds * speed);
RotateY(rot, d, speed) == Rotate(rot, "y", d * speed * 10)

\* transform.rotate_x(delta_seconds * speed * 0.7);
RotateX(rot, d, speed) == Rotate(rot, "x", d * speed * 7)

\* transform.rotate_z(delta_seconds * speed * 0.3);
RotateZ(rot, d, speed) == Rotate(rot, "z", d * speed * 3)

\* the closure of animate_shapes_parallel applied to one query item
AnimateOne(e, d) ==
    [e EXCEPT !.rotation = RotateZ(RotateX(RotateY(@, d, e.rotation_speed),
                                           d, e.rotation_speed),
                                   d, e.rotation_speed),
              !.upd = @ + 1]

\* commands.spawn((.., Transform::from_xyz(0.0, 2.0, 0.0), AnimatedShape { rotation_speed: 1.0 }))
CenterShape ==
    [batch |-> 0, rotation_speed |-> 100, rotation |-> Identity,
     fresh |-> FALSE, upd |-> 0]

Clamp(x, lo, hi) == IF x < lo THEN lo ELSE IF x > hi THEN hi ELSE x

\* mutant: the speed decays with the batch number
RotationSpeedDecay(b) == Clamp(100 - b * 3, 50, 100)

\* 0.5 + (stats.batch_count as f32 * 0.03).clamp(0.0, 0.5)
RotationSpeed(b) == 50 + Clamp(b * 3, 0, 50)

\* the bundle that the i-th iteration of the spawn loop hands to commands.spawn
SpawnCommand(b, i) ==
    [batch |-> b, rotation_speed |-> RotationSpeed(b), rotation |-> Identity,
     fresh |-> TRUE, upd |-> 0]

\* mutant: the spawn loop starts at 1
SpawnIndicesShort == 1 .. (COUNT - 1)

\* (0..COUNT).for_each(|i| { .. commands.spawn(..) })
SpawnIndices == 0 .. (COUNT - 1)

\* the bag of the COUNT bundles queued by the spawn loop of batch b, for
\* every batch number a run can reach
QueuedBundles ==
    [b \in 1 .. MaxBatches |->
        [r \in {SpawnCommand(b, i) : i \in SpawnIndices} |->
            Cardinality({i \in SpawnIndices : SpawnCommand(b, i) = r})]]

SpawnBatch(b) == QueuedBundles[b]

\* the start of a frame clears the per-frame history fields
NewFrameEntity(e) == [e EXCEPT !.fresh = FALSE, !.upd = 0]

\* ------------------------------------------------------------------ Init
InitMain ==
    /\ phase = "idle"
    /\ frame = 0
    /\ ran = {}
    /\ now = 0
    /\ dt = 0
    /\ just_pressed = FALSE
    /\ stats = [batch_count |-> 0, total_entities |-> 1, last_5s_log |-> 0]
    /\ stats_changed = TRUE
    /\ fps_counter = [samples |-> <<>>, last_update |-> 0, sample_start |-> 0,
                      rolling_sum |-> 0, sample_count |-> 0]
    /\ fps_text = "FPS: --"
    /\ entity_text = "Entities: 1"
    /\ store = SetToBag({CenterShape})
    /\ pending = EmptyBag
    /\ console = <<"banner">>
    /\ triggers = 0
    /\ prev_total = 1
    /\ rewrote = FALSE
    /\ shown_stats = [batch_count |-> 0, total_entities |-> 0, last_5s_log |-> 0]
    /\ div_zero = FALSE
    /\ all_samples = <<>>
    /\ last_fps = 0

\* the population of SpecPar: the centre shape and one entity of each of the
\* first NumEnt - 1 batches, spawned one frame apart with one second frames,
\* so that entity k has been through NumEnt - k earlier passes
RECURSIVE Aged(_, _)
Aged(e, n) == IF n = 0 THEN e ELSE Aged(AnimateOne(e, 1), n - 1)

ParPopulation ==
    [k \in 1 .. NumEnt |->
        Aged(IF k = 1 THEN CenterShape ELSE SpawnCommand(k - 1, 0), NumEnt - k)]

InitPar ==
    /\ par_phase = "idle"
    /\ par_ents = [k \in 1 .. NumEnt |-> NewFrameEntity(ParPopulation[k])]
    /\ par_init = par_ents
    /\ par_dt = 0
    /\ par_owner = [k \in 1 .. NumEnt |-> 1]
    /\ par_pc = [k \in 1 .. NumEnt |-> 0]
    /\ par_cur = [w \in 1 .. (NumEnt - 1) |-> 0]

Init == InitMain /\ InitPar /\ pattern = <<>>

\* ------------------------------------------------------- frame scheduling
\* The runtime starts a frame: Time is advanced by d and the key state is
\* sampled (p: Space went down since the last frame).
BeginFrame(d, p, limit) ==
    /\ phase = "idle"
    /\ frame < limit
    /\ p => triggers < MaxBatches
    /\ phase' = "frame"
    /\ ran' = {}
    /\ now' = now + d
    /\ dt' = d
    /\ just_pressed' = p
    /\ triggers' = IF p THEN triggers + 1 ELSE triggers
    /\ prev_total' = stats.total_entities
    /\ rewrote' = FALSE
    /\ store' = MapBag([e \in DOMAIN store |-> NewFrameEntity(e)], store)
    /\ UNCHANGED <<frame, stats, stats_changed, entity_text, shown_stats, fpsVars,
                   pending, console, pattern, parVars>>

\* .add_systems(Update, (..)): each system runs once per frame, in no fixed order
SystemRuns(name) ==
    /\ phase = "frame"
    /\ name \notin ran
    /\ ran' = ran \cup {name}
    /\ UNCHANGED <<phase, frame, now, dt, just_pressed, pattern, parVars>>

\* a command-application point of the schedule: the queued spawns take effect
ApplyDeferred ==
    /\ phase = "frame"
    /\ pending # EmptyBag
    /\ store' = store (+) pending
    /\ pending' = EmptyBag
    /\ UNCHANGED <<frameVars, statsVars, fpsVars, console, pattern, parVars>>

\* the schedule ends once the systems of S have run; commands still queued
\* are applied
EndFrame(S) ==
    /\ phase = "frame"
    /\ ran = S
    /\ phase' = "idle"
    /\ frame' = frame + 1
    /\ store' = store (+) pending
    /\ pending' = EmptyBag
    /\ UNCHANGED <<ran, now, dt, just_pressed, statsVars, fpsVars, console, pattern,
                   parVars>>

\* ---------------------------------------------------- spawn_stress_shapes
\* mutant: total_entities is assigned, not incremented
SpawnedStatsAssign(st) ==
    [st EXCEPT !.batch_count = @ + 1, !.total_entities = COUNT]

\* stats.batch_count += 1; stats.total_entities += COUNT;
\* (u32 additions: within MaxBatches batches the sums stay far below 2^32,
\* which is itself beyond the integers TLC represents)
SpawnedStats(st) ==
    [st EXCEPT !.batch_count = @ + 1, !.total_entities = @ + COUNT]

SpawnStressShapes ==
    /\ SystemRuns("spawn")
    /\ IF just_pressed
       THEN /\ stats' = SpawnedStats(stats)
            /\ stats_changed' = TRUE
            /\ console' = <<"batch", stats'.batch_count, stats'.total_entities>>
            /\ pending' = pending (+) SpawnBatch(stats'.batch_count)
       ELSE UNCHANGED <<stats, stats_changed, console, pending>>
    /\ UNCHANGED <<entity_text, prev_total, rewrote, shown_stats, triggers, fpsVars,
                   store>>

\* ------------------------------------------------ animate_shapes_parallel
\* mutant: the closure is applied twice to every item
AnimateTwice(e) == AnimateOne(AnimateOne(e, dt), dt)

AnimateWithDt(e) == AnimateOne(e, dt)

AnimateShapesParallel ==
    /\ SystemRuns("animate")
    /\ store' = MapBag([e \in DOMAIN store |-> AnimateWithDt(e)], store)
    /\ UNCHANGED <<statsVars, fpsVars, pending, console>>

\* ----------------------------------------------------- update_fps_display
\* mutant: the window is reset only after more than 3 s
WindowExpiredStrict(c, t) == t - c.sample_start > WindowSecs

\* if current_time - fps_counter.sample_start >= 3.0
WindowExpired(c, t) == t - c.sample_start >= WindowSecs

\* the window reset followed by rolling_sum += fps; sample_count += 1
Accumulate(c, t, f) ==
    LET r == IF WindowExpired(c, t)
             THEN [c EXCEPT !.rolling_sum = 0, !.sample_count = 0, !.sample_start = t]
             ELSE c
    IN  [r EXCEPT !.rolling_sum = FAdd(@, f), !.sample_count = @ + 1]

\* if current_time - fps_counter.last_update >= 1.0
DisplayDue(c, t) == t - c.last_update >= DisplaySecs

\* if fps_counter.sample_count > 0  (update_fps_display and log_fps_periodic)
WindowHasSamples(c) == c.sample_count > 0

\* mutant: the newest sample is dropped (pop_back)
PushSampleDropNewest(s, f) ==
    LET a == Append(s, f) IN IF Len(a) > HistoryCap THEN SubSeq(a, 1, HistoryCap) ELSE a

\* samples.push_back(fps); if samples.len() > 150 { samples.pop_front(); }
PushSample(s, f) ==
    LET a == Append(s, f) IN IF Len(a) > HistoryCap THEN Tail(a) ELSE a

UpdateFpsDisplay ==
    /\ SystemRuns("fps")
    /\ LET f == InstantFps(dt)
           c == Accumulate(fps_counter, now, f)
           due == DisplayDue(c, now)
       IN  /\ fps_text' = IF due /\ WindowHasSamples(c)
                          THEN FormatFps(FDiv(c.rolling_sum, c.sample_count))
                          ELSE fps_text
           /\ div_zero' = (div_zero \/ (due /\ WindowHasSamples(c) /\ c.sample_count = 0))
           /\ fps_counter' = [c EXCEPT !.last_update = IF due THEN now ELSE @,
                                       !.samples = PushSample(@, f)]
           /\ all_samples' = Append(all_samples, f)
           /\ last_fps' = f
    /\ UNCHANGED <<statsVars, storeVars, console>>

\* ------------------------------------------------------- log_fps_periodic
\* mutant: the history is preferred to the window
ThreeSecAvgHistoryFirst(c) ==
    IF c.samples # <<>> THEN FDiv(FSum(c.samples), Len(c.samples))
    ELSE IF WindowHasSamples(c) THEN FDiv(c.rolling_sum, c.sample_count)
    ELSE 0

\* let three_sec_avg = if .. else if .. else ..
ThreeSecAvg(c) ==
    IF WindowHasSamples(c) THEN FDiv(c.rolling_sum, c.sample_count)
    ELSE IF c.samples # <<>> THEN FDiv(FSum(c.samples), Len(c.samples))
    ELSE 0

\* if current_time - stats.last_5s_log >= 5.0
ReportDue(st, t) == t - st.last_5s_log >= ReportSecs

LogFpsPeriodic ==
    /\ SystemRuns("log")
    /\ IF ReportDue(stats, now)
       THEN /\ console' = <<"report", now, stats.total_entities, ThreeSecAvg(fps_counter)>>
            /\ div_zero' = (div_zero \/ (WindowHasSamples(fps_counter)
                                          /\ fps_counter.sample_count = 0))
            /\ stats' = [stats EXCEPT !.last_5s_log = now]
            /\ stats_changed' = TRUE
       ELSE UNCHANGED <<console, div_zero, stats, stats_changed>>
    /\ UNCHANGED <<entity_text, prev_total, rewrote, shown_stats, triggers,
                   fps_counter, fps_text, all_samples, last_fps, storeVars>>

\* -------------------------------------------------- update_entity_display
\* mutant: the text is rewritten in every frame
DisplayGateAlways(changed) == TRUE

\* if stats.is_changed()
DisplayGate(changed) == changed

UpdateEntityDisplay ==
    /\ SystemRuns("display")
    /\ IF DisplayGate(stats_changed)
       THEN entity_text' = FormatEntities(stats.total_entities) /\ rewrote' = TRUE
       ELSE UNCHANGED <<entity_text, rewrote>>
    /\ stats_changed' = FALSE
    /\ shown_stats' = stats
    /\ UNCHANGED <<stats, prev_total, triggers, fpsVars, storeVars, console>>

\* ------------------------------------------------------------------ Spec
StartFrame == \E d \in 0 .. MaxDt, p \in BOOLEAN : BeginFrame(d, p, MaxFrames)

FinishFrame == EndFrame(Systems)

Next ==
    \/ StartFrame
    \/ SpawnStressShapes
    \/ AnimateShapesParallel
    \/ LogFpsPeriodic
    \/ UpdateFpsDisplay
    \/ UpdateEntityDisplay
    \/ ApplyDeferred
    \/ FinishFrame

Spec == Init /\ [][Next]_vars

\* --------------------------------------------------------------- SpecFps
\* Long runs of the two systems that touch FpsCounter (update_fps_display
\* writes it, log_fps_periodic reads it), in either order within a frame.
\* The frame time deltas repeat a pattern chosen at the start.
InitFps == InitMain /\ InitPar /\ pattern \in [1 .. PatLen -> 0 .. MaxDt]

StartFrameFps == BeginFrame(pattern[(frame % PatLen) + 1], FALSE, MaxHistFrames)

FinishFrameFps == EndFrame(FpsSystems)

NextFps ==
    \/ StartFrameFps
    \/ LogFpsPeriodic
    \/ UpdateFpsDisplay
    \/ FinishFrameFps

SpecFps == InitFps /\ [][NextFps]_vars

\* --------------------------------------------------------------- SpecPar
\* One pass of query.par_iter_mut().for_each(closure): the entities are
\* dealt out to the workers of the task pool in any way, each worker runs
\* the closure on its entities one after the other in any order, and the
\* three rotate calls of the workers' closures interleave freely.
Workers == 1 .. (NumEnt - 1)

\* mutant: every closure reads the Transform of the first entity
QueryItemShared(k) == [transform |-> 1, shape |-> k]

\* the query item handed to the closure for entity k: the Transform it reads
\* and writes and the AnimatedShape it reads are those of entity k
QueryItem(k) == [transform |-> k, shape |-> k]

ParSpeed(k) == par_ents[QueryItem(k).shape].rotation_speed

ParWrite(k, rot) == [par_ents EXCEPT ![k].rotation = rot]

ParRead(k) == par_ents[QueryItem(k).transform].rotation

ParStart ==
    /\ par_phase = "idle"
    /\ \E d \in 0 .. MaxDt, o \in [1 .. NumEnt -> Workers] :
          par_dt' = d /\ par_owner' = o
    /\ par_phase' = "run"
    /\ par_init' = par_ents
    /\ UNCHANGED <<par_ents, par_pc, par_cur>>

\* a free worker takes one of its entities and makes the closure's first call
ParRotateY(w) ==
    /\ par_phase = "run"
    /\ par_cur[w] = 0
    /\ \E k \in 1 .. NumEnt :
          /\ par_owner[k] = w
          /\ par_pc[k] = 0
          /\ par_ents' = ParWrite(k, RotateY(ParRead(k), par_dt, ParSpeed(k)))
          /\ par_pc' = [par_pc EXCEPT ![k] = 1]
          /\ par_cur' = [par_cur EXCEPT ![w] = k]
    /\ UNCHANGED <<par_phase, par_init, par_dt, par_owner>>

ParRotateX(w) ==
    /\ par_phase = "run"
    /\ par_cur[w] # 0
    /\ par_pc[par_cur[w]] = 1
    /\ LET k == par_cur[w]
       IN  /\ par_ents' = ParWrite(k, RotateX(ParRead(k), par_dt, ParSpeed(k)))
           /\ par_pc' = [par_pc EXCEPT ![k] = 2]
    /\ UNCHANGED <<par_phase, par_init, par_dt, par_owner, par_cur>>

\* the closure's last call; the closure returns and the worker is free again
ParRotateZ(w) ==
    /\ par_phase = "run"
    /\ par_cur[w] # 0
    /\ par_pc[par_cur[w]] = 2
    /\ LET k == par_cur[w]
           e == ParWrite(k, RotateZ(ParRead(k), par_dt, ParSpeed(k)))
       IN  /\ par_ents' = [e EXCEPT ![k].upd = @ + 1]
           /\ par_pc' = [par_pc EXCEPT ![k] = 3]
    /\ par_cur' = [par_cur EXCEPT ![w] = 0]
    /\ UNCHANGED <<par_phase, par_init, par_dt, par_owner>>

\* for_each returns when every item has been processed
ParJoin ==
    /\ par_phase = "run"
    /\ \A k \in 1 .. NumEnt : par_pc[k] = 3
    /\ par_phase' = "done"
    /\ UNCHANGED <<par_ents, par_init, par_dt, par_owner, par_pc, par_cur>>

mainVars == <<frameVars, statsVars, fpsVars, storeVars, console, pattern>>

ParWorkerY == \E w \in Workers : ParRotateY(w) /\ UNCHANGED mainVars

ParWorkerX == \E w \in Workers : ParRotateX(w) /\ UNCHANGED mainVars

ParWorkerZ == \E w \in Workers : ParRotateZ(w) /\ UNCHANGED mainVars

ParBegin == ParStart /\ UNCHANGED mainVars

ParEnd == ParJoin /\ UNCHANGED mainVars

NextPar ==
    \/ ParBegin
    \/ ParWorkerY
    \/ ParWorkerX
    \/ ParWorkerZ
    \/ ParEnd

SpecPar == Init /\ [][NextPar]_vars

\* the same pass made by one thread: query.iter_mut().for_each(closure)
SequentialPass(ents, d) == [k \in DOMAIN ents |-> AnimateOne(ents[k], d)]

\* ================================================================ claims
StoreSet == BagToSet(store)

AllShapes == BagToSet(store (+) pending)

SpawnStep == "spawn" \notin ran /\ "spawn" \in ran'

FpsStep == "fps" \notin ran /\ "fps" \in ran'

LogStep == "log" \notin ran /\ "log" \in ran'

DisplayStep == "display" \notin ran /\ "display" \in ran'

\* C1: total_entities = 1 + batch_count * COUNT in every state; batch_count is
\* the number of spawn triggers that fired, counted at frame boundaries (and,
\* inside a frame, less the trigger the spawner has not yet served); only a
\* step of spawn_stress_shapes changes either counter.
C1_Growth ==
    /\ [](/\ stats.total_entities = 1 + stats.batch_count * COUNT
          /\ phase = "idle" => stats.batch_count = triggers
          /\ phase = "frame" =>
                stats.batch_count =
                    IF just_pressed /\ "spawn" \notin ran THEN triggers - 1 ELSE triggers)
    /\ [][(stats'.batch_count # stats.batch_count
            \/ stats'.total_entities # stats.total_entities) => SpawnStep]_vars

C1_Witness == phase = "idle" /\ triggers = 2 /\ stats.total_entities = 1 + 2 * COUNT

C3_Finite ==
    /\ fps_counter.rolling_sum # INF
    /\ \A i \in 1 .. Len(fps_counter.samples) : fps_counter.samples[i] # INF
    /\ ("fps" \in ran /\ dt = 0) => fps_counter.samples[Len(fps_counter.samples)] = 0

C6_OrderIndependent ==
    par_phase = "done" => par_ents = SequentialPass(par_init, par_dt)

C6_Witness ==
    /\ par_phase = "done" /\ par_dt > 0
    /\ \E j, k \in 1 .. NumEnt : par_owner[j] # par_owner[k]

\* C7: a call of update_fps_display made 3 s or more after sample_start
\* leaves sample_start = now, sample_count = 1 and rolling_sum = the frame's
\* sample; any other call keeps sample_start, adds 1 to sample_count and
\* adds the frame's sample to rolling_sum.
C7_Window ==
    [][FpsStep =>
        LET c == fps_counter
            d == fps_counter'
            f == d.samples[Len(d.samples)]
        IN  IF now - c.sample_start >= WindowSecs
            THEN d.sample_start = now /\ d.sample_count = 1 /\ d.rolling_sum = f
            ELSE /\ d.sample_start = c.sample_start
                 /\ d.sample_count = c.sample_count + 1
                 /\ d.rolling_sum = FAdd(c.rolling_sum, f)]_vars

\* a reset made exactly WindowSecs after the window began, by a call that
\* was not the first
C7_Witness ==
    /\ "fps" \in ran /\ now = WindowSecs
    /\ fps_counter.sample_start = now /\ fps_counter.sample_count = 1
    /\ Len(fps_counter.samples) >= 2

\* C8: a report is emitted exactly when 5 s have passed since the last one,
\* and its average is rolling_sum / sample_count if sample_count > 0, else
\* the mean of the history if it is not empty, else 0; the quotient is never
\* evaluated with sample_count = 0.
C8_Report ==
    /\ [][LogStep =>
            IF now - stats.last_5s_log >= ReportSecs
            THEN console' =
                   <<"report", now, stats.total_entities,
                     IF fps_counter.sample_count > 0
                     THEN FDiv(fps_counter.rolling_sum, fps_counter.sample_count)
                     ELSE IF Len(fps_counter.samples) > 0
                     THEN FDiv(FSum(fps_counter.samples), Len(fps_counter.samples))
                     ELSE 0>>
            ELSE console' = console]_vars
    /\ [](~div_zero)

\* a report whose window average differs from the mean of the history
C8_Witness ==
    /\ console[1] = "report"
    /\ "log" \in ran /\ "fps" \in ran /\ console[2] = now
    /\ fps_counter.sample_count > 0
    /\ console[4] # FDiv(FSum(fps_counter.samples), Len(fps_counter.samples))

\* C9: the history holds at most HistoryCap samples, and they are the last
\* samples pushed, in arrival order.
C9_History ==
    LET n == Len(all_samples)
        k == IF n > HistoryCap THEN HistoryCap ELSE n
    IN  /\ Len(fps_counter.samples) <= HistoryCap
        /\ fps_counter.samples = SubSeq(all_samples, n - k + 1, n)

\* the push of sample HistoryCap + 1 dropped the oldest sample, which
\* differed from the second oldest
C9_Witness ==
    /\ Len(all_samples) = HistoryCap + 1
    /\ Len(fps_counter.samples) = HistoryCap
    /\ all_samples[1] # all_samples[2]
    /\ fps_counter.samples[1] = all_samples[2]

\* C10: at every frame boundary the store holds total_entities entities, one
\* plus COUNT per fired trigger, with no command left queued; inside a frame
\* the store and the queue together hold total_entities; the population never
\* shrinks.
C10_Population ==
    /\ [](/\ BagCardinality(store) + BagCardinality(pending) = stats.total_entities
          /\ phase = "idle" =>
                /\ pending = EmptyBag
                /\ BagCardinality(store) = stats.total_entities
                /\ BagCardinality(store) = 1 + triggers * COUNT)
    /\ [][BagCardinality(store') >= BagCardinality(store)]_vars

C10_Witness ==
    phase = "idle" /\ frame = 2 /\ BagCardinality(store) = 1 + 2 * COUNT

====
